---- MODULE Spec2Model ----
(***************************************************************************)
(* Indicative-price retrieval of the 0x plugin: the interactive action     *)
(* getIndicativePrice.handler and the retrying helper getPriceInquiry.     *)
(* One behaviour is one invocation of one of the two entry points; every   *)
(* call of an external collaborator is one step, and a collaborator that   *)
(* can throw does so by nondeterministic choice.                           *)
(***************************************************************************)
EXTENDS Integers, Sequences, FiniteSets, TLC

VARIABLES
    h_pc,        \* position of the handler: "idle", a line label, "done", "threw"
    h_ret,       \* what the handler returned: "none", "undefined", "true", "false"
    content,     \* content.object returned by generateObject
    chainId,     \* Chains[chain.toLowerCase()] of the handler
    sellMeta,    \* sellTokenMetadata of the running invocation
    buyMeta,     \* buyTokenMetadata of the running invocation
    baseUnits,   \* sellAmountBaseUnits of the handler (an integer string)
    replies,     \* the arguments of the callback invocations, in order
    memory,      \* PriceInquiry records written by createMemory
    err,         \* message of the exception caught or escaped, "" if none
    g_pc,        \* position of getPriceInquiry
    g_ret,       \* what getPriceInquiry returned: "none", "null", "inquiry"
    g_args,      \* arguments of getPriceInquiry
    g_inquiry,   \* the PriceInquiry returned by getPriceInquiry
    attempt,     \* the attempt counter of getPriceInquiry
    price,       \* result of the last getPrice: "none", "null", "price"; "threw"
                 \* if an exception left it
    sent,        \* sellAmount strings sent in pricing requests, in order
    failFirst,   \* the pricing stub fails on its first failFirst invocations
    events,      \* the external calls made so far, in order
    waited,      \* total delay of getPriceInquiry so far, in milliseconds
    setting,     \* what getSetting("ZERO_EX_API_KEY") returned to validate
    v_ret        \* what validate returned: "none", "true", "false"

vars == <<h_pc, h_ret, content, chainId, sellMeta, buyMeta, baseUnits, replies,
          memory, err, g_pc, g_ret, g_args, g_inquiry, attempt, price, sent,
          failFirst, events, waited, setting, v_ret>>

v_vars == <<setting, v_ret>>
h_vars == <<h_pc, h_ret, content, chainId, baseUnits, replies, memory, v_vars>>
g_vars == <<g_pc, g_ret, g_args, g_inquiry, attempt, price, waited>>

-----------------------------------------------------------------------------
(* Bounds and program constants *)

\* the pricing stub may fail on up to this many leading invocations
MaxFailFirst == 6

\* const maxRetries = 6
maxRetries == 6

\* const chainId = 8453 (Base), hardcoded in getPriceInquiry
BASE_CHAIN_ID == 8453

\* setTimeout(resolve, 5000)
RETRY_DELAY_MS == 5000

\* Numbers are held as integer multiples of 10^-7, so that 1e-7 (which
\* Number.prototype.toString prints in exponent notation) is representable.
Scale == 10^7

-----------------------------------------------------------------------------
(* Generic helpers *)

Count(s, e) == Cardinality({i \in DOMAIN s : s[i] = e})

Range(s) == {s[i] : i \in DOMAIN s}

-----------------------------------------------------------------------------
(* Token metadata: the catalogue behind getTokenMetadata and               *)
(* EVMTokenRegistry.getTokenBySymbol                                        *)

NoMeta == [symbol |-> "", address |-> "", decimals |-> 0]

KnownTokens == {"WETH", "USDC"}

TokenTable(sym) ==
    IF sym = "WETH" THEN [symbol |-> "WETH", address |-> "0xWETH", decimals |-> 2]
    ELSE IF sym = "USDC" THEN [symbol |-> "USDC", address |-> "0xUSDC", decimals |-> 1]
    ELSE NoMeta

\* getTokenMetadata(symbol): the metadata, or an absent value (NoMeta)
getTokenMetadata(sym) == TokenTable(sym)

-----------------------------------------------------------------------------
(* JavaScript number helpers, on numbers scaled by Scale *)

\* Math.round(x): the nearest integer, halves rounded towards +infinity
MathRound(x) == ((x + Scale \div 2) \div Scale) * Scale

\* Number.prototype.toString: a number string is identified by the number it
\* denotes and by whether it is printed in exponent notation (0 < |x| < 1e-6)
Abs(x) == IF x < 0 THEN -x ELSE x
IsExponentForm(x) == x # 0 /\ Abs(x) < Scale \div 10^6
NumberToString(x) == [value |-> x, exponent |-> IsExponentForm(x)]

\* the string is a plain decimal integer such as "2" or "-1"
IsDecimalIntegerString(s) == ~s.exponent /\ s.value % Scale = 0

NoString == [value |-> 0, exponent |-> TRUE]

\* sellAmountBaseUnits < 0.000000000000000000000001: on the 10^-7 grid the
\* threshold 1e-24 lies strictly between 0 and the smallest positive number
IsTooSmall(x) == x <= 0

-----------------------------------------------------------------------------
(* getPriceInquiry *)

Symbols == {"WETH", "USDC", "FAKE"}

\* sellAmountBaseUnits arguments: -1, 0, 0.4, 0.5, 1.5, 2
HelperAmounts == {-Scale, 0, 4 * (Scale \div 10), 5 * (Scale \div 10),
                  15 * (Scale \div 10), 2 * Scale}

HelperChains == {"base", "optimism"}

NoArgs == [sellTokenSymbol |-> "", sellAmountBaseUnits |-> 0,
           buyTokenSymbol |-> "", chain |-> ""]

NoInquiry == [sellTokenObject |-> NoMeta, buyTokenObject |-> NoMeta,
              sellAmountBaseUnits |-> NoString, chainId |-> 0]

\* the call getPriceInquiry(runtime, sellTokenSymbol, sellAmountBaseUnits,
\* buyTokenSymbol, _chain), with a pricing stub chosen by the caller
InvokeGetPriceInquiry ==
    /\ h_pc = "idle" /\ g_pc = "idle" /\ v_ret = "none"
    /\ \E s \in Symbols, b \in Symbols, a \in HelperAmounts, c \in HelperChains,
          f \in 0..MaxFailFirst :
          /\ g_args' = [sellTokenSymbol |-> s, sellAmountBaseUnits |-> a,
                        buyTokenSymbol |-> b, chain |-> c]
          /\ failFirst' = f
    /\ g_pc' = "checkAmount"
    /\ UNCHANGED <<h_pc, h_ret, content, chainId, sellMeta, buyMeta, baseUnits,
                   replies, memory, err, g_ret, g_inquiry, attempt, price, sent,
                   events, waited, v_vars>>

\* lines 315-319: the degenerate-amount guard
GpiCheckAmount ==
    /\ g_pc = "checkAmount"
    /\ IF IsTooSmall(g_args.sellAmountBaseUnits)
       THEN g_pc' = "done" /\ g_ret' = "null"
       ELSE g_pc' = "resolve" /\ g_ret' = g_ret
    /\ UNCHANGED <<h_vars, sellMeta, buyMeta, err, g_args, g_inquiry, attempt,
                   price, sent, failFirst, events, waited>>

\* variant of GpiResolveTokens without the terminal exit of lines 329-332
GpiResolveTokensMissingProceeds ==
    /\ g_pc = "resolve"
    /\ attempt' = 0
    /\ buyMeta' = getTokenMetadata(g_args.buyTokenSymbol)
    /\ sellMeta' = getTokenMetadata(g_args.sellTokenSymbol)
    /\ events' = events \o <<"getTokenMetadata", "getTokenMetadata">>
    /\ g_pc' = "loop" /\ g_ret' = g_ret /\ err' = err
    /\ UNCHANGED <<h_vars, g_args, g_inquiry, price, sent, failFirst, waited>>

\* lines 321-332: attempt = 0, both metadata lookups, the terminal exit.
\* A lookup may throw; nothing catches it here.
GpiResolveTokens ==
    /\ g_pc = "resolve"
    /\ attempt' = 0
    /\ \E buyThrows \in BOOLEAN, sellThrows \in BOOLEAN :
          IF buyThrows
          THEN /\ events' = Append(events, "getTokenMetadata")
               /\ g_pc' = "threw" /\ err' = "getTokenMetadata failed"
               /\ UNCHANGED <<buyMeta, sellMeta, g_ret>>
          ELSE IF sellThrows
          THEN /\ events' = events \o <<"getTokenMetadata", "getTokenMetadata">>
               /\ buyMeta' = getTokenMetadata(g_args.buyTokenSymbol)
               /\ g_pc' = "threw" /\ err' = "getTokenMetadata failed"
               /\ UNCHANGED <<sellMeta, g_ret>>
          ELSE /\ events' = events \o <<"getTokenMetadata", "getTokenMetadata">>
               /\ buyMeta' = getTokenMetadata(g_args.buyTokenSymbol)
               /\ sellMeta' = getTokenMetadata(g_args.sellTokenSymbol)
               /\ err' = err
               /\ IF sellMeta' = NoMeta \/ buyMeta' = NoMeta
                  THEN g_pc' = "done" /\ g_ret' = "null"
                  ELSE g_pc' = "loop" /\ g_ret' = g_ret
    /\ UNCHANGED <<h_vars, g_args, g_inquiry, price, sent, failFirst, waited>>

\* line 334 (and line 393 when the loop condition fails)
GpiLoopTest ==
    /\ g_pc = "loop"
    /\ IF attempt < maxRetries
       THEN g_pc' = "createClients" /\ g_ret' = g_ret
       ELSE g_pc' = "done" /\ g_ret' = "null"
    /\ UNCHANGED <<h_vars, sellMeta, buyMeta, err, g_args, g_inquiry, attempt,
                   price, sent, failFirst, events, waited>>

\* lines 336-355: createClientV2, then createWalletClient; either may throw
\* into the catch of the loop body
GpiCreateClients ==
    /\ g_pc = "createClients"
    /\ \E outcome \in {"ok", "zxThrows", "walletThrows"} :
          IF outcome = "zxThrows"
          THEN /\ events' = Append(events, "createClientV2")
               /\ g_pc' = "catch" /\ err' = "createClientV2 failed"
          ELSE IF outcome = "walletThrows"
          THEN /\ events' = events \o <<"createClientV2", "createWalletClient">>
               /\ g_pc' = "catch" /\ err' = "createWalletClient failed"
          ELSE /\ events' = events \o <<"createClientV2", "createWalletClient">>
               /\ g_pc' = "getPrice" /\ err' = err
    /\ UNCHANGED <<h_vars, sellMeta, buyMeta, g_ret, g_args, g_inquiry, attempt,
                   price, sent, failFirst, waited>>

\* the pricing stub: zxClient.swap.allowanceHolder.getPrice.query throws on
\* its k-th invocation iff k <= failFirst
QueryThrows(k) == k <= failFirst

\* variant of getPrice without the try/catch of lines 403-411
getPriceRethrows(k) == IF QueryThrows(k) THEN "threw" ELSE "price"

\* lines 397-412: the adapter turns an exception of the query into null
getPrice(k) == IF QueryThrows(k) THEN "null" ELSE "price"

\* variant of GpiGetPrice that takes the chain id from the _chain argument
GpiGetPriceChainFromArgument ==
    /\ g_pc = "getPrice"
    /\ events' = Append(events, "query")
    /\ sent' = Append(sent, NumberToString(MathRound(g_args.sellAmountBaseUnits)))
    /\ price' = getPrice(Count(events, "query") + 1)
    /\ IF price' = "null"
       THEN g_ret' = "null" /\ g_inquiry' = g_inquiry
       ELSE /\ g_ret' = "inquiry"
            /\ g_inquiry' =
                  [sellTokenObject |-> sellMeta, buyTokenObject |-> buyMeta,
                   sellAmountBaseUnits |-> NumberToString(g_args.sellAmountBaseUnits),
                   chainId |-> IF g_args.chain = "optimism" THEN 10
                                                            ELSE BASE_CHAIN_ID]
    /\ g_pc' = "done" /\ err' = err
    /\ UNCHANGED <<h_vars, sellMeta, buyMeta, g_args, attempt, failFirst, waited>>

\* lines 356-380: the request, `if (!price) return null`, the PriceInquiry.
\* The call sits in the try of the loop body: an exception leaving getPrice
\* would reach the catch of line 381.
GpiGetPrice ==
    /\ g_pc = "getPrice"
    /\ events' = Append(events, "query")
    /\ sent' = Append(sent, NumberToString(MathRound(g_args.sellAmountBaseUnits)))
    /\ price' = getPrice(Count(events, "query") + 1)
    /\ IF price' = "threw"
       THEN /\ g_pc' = "catch" /\ err' = "query failed"
            /\ UNCHANGED <<g_ret, g_inquiry>>
       ELSE /\ g_pc' = "done" /\ err' = err
            /\ IF price' = "null"
               THEN g_ret' = "null" /\ g_inquiry' = g_inquiry
               ELSE /\ g_ret' = "inquiry"
                    /\ g_inquiry' =
                          [sellTokenObject |-> sellMeta, buyTokenObject |-> buyMeta,
                           sellAmountBaseUnits |->
                              NumberToString(g_args.sellAmountBaseUnits),
                           chainId |-> BASE_CHAIN_ID]
    /\ UNCHANGED <<h_vars, sellMeta, buyMeta, g_args, attempt, failFirst, waited>>

\* variant of GpiCatch without the attempt++ of line 382
GpiCatchNoIncrement ==
    /\ g_pc = "catch"
    /\ attempt' = attempt
    /\ IF attempt' >= maxRetries
       THEN g_pc' = "done" /\ g_ret' = "null"
       ELSE g_pc' = "sleep" /\ g_ret' = g_ret
    /\ UNCHANGED <<h_vars, sellMeta, buyMeta, err, g_args, g_inquiry, price, sent,
                   failFirst, events, waited>>

\* variant of GpiCatch that delays after every failed attempt, the last
\* one included
GpiCatchAlwaysSleeps ==
    /\ g_pc = "catch"
    /\ attempt' = attempt + 1
    /\ g_pc' = "sleep" /\ g_ret' = g_ret
    /\ UNCHANGED <<h_vars, sellMeta, buyMeta, err, g_args, g_inquiry, price, sent,
                   failFirst, events, waited>>

\* lines 381-389: attempt++, give up at maxRetries
GpiCatch ==
    /\ g_pc = "catch"
    /\ attempt' = attempt + 1
    /\ IF attempt' >= maxRetries
       THEN g_pc' = "done" /\ g_ret' = "null"
       ELSE g_pc' = "sleep" /\ g_ret' = g_ret
    /\ UNCHANGED <<h_vars, sellMeta, buyMeta, err, g_args, g_inquiry, price, sent,
                   failFirst, events, waited>>

\* line 390: the delay before the next attempt
GpiSleep ==
    /\ g_pc = "sleep"
    /\ events' = Append(events, "sleep")
    /\ waited' = waited + RETRY_DELAY_MS
    /\ g_pc' = "loop"
    /\ UNCHANGED <<h_vars, sellMeta, buyMeta, err, g_ret, g_args, g_inquiry,
                   attempt, price, sent, failFirst>>

GetPriceInquiry ==
    \/ InvokeGetPriceInquiry
    \/ GpiCheckAmount
    \/ GpiResolveTokens
    \/ GpiLoopTest
    \/ GpiCreateClients
    \/ GpiGetPrice
    \/ GpiCatch
    \/ GpiSleep

-----------------------------------------------------------------------------
(* The Chains enumeration and the token registry of the interactive path *)

\* enum Chains: a numeric enum, so the object maps each name to its id and
\* each id (as a key) back to its name; Object.keys lists the ids first
ChainNames == <<"optimism", "base">>
ChainIdKeys == <<"10", "8453">>
ChainsKeys == ChainIdKeys \o ChainNames

Chains(key) ==
    IF key = "optimism" THEN [kind |-> "id", id |-> 10, name |-> ""]
    ELSE IF key = "base" THEN [kind |-> "id", id |-> BASE_CHAIN_ID, name |-> ""]
    ELSE IF key = "10" THEN [kind |-> "name", id |-> 0, name |-> "optimism"]
    ELSE IF key = "8453" THEN [kind |-> "name", id |-> 0, name |-> "base"]
    ELSE [kind |-> "undefined", id |-> 0, name |-> ""]

\* !Number.isNaN(Number(k)) on the keys of Chains
IsNumericKey(k) == k \in Range(ChainIdKeys)

\* EVMTokenRegistry.isChainSupported(chainId): ids of the enumeration only
isChainSupported(c) == c.kind = "id" /\ c.id \in {10, BASE_CHAIN_ID}

\* EVMTokenRegistry.getTokenBySymbol(symbol, chainId) after initializeChain;
\* a null symbol is in no catalogue
getTokenBySymbol(field, c) ==
    IF field.type = "string" THEN TokenTable(field.val) ELSE NoMeta

-----------------------------------------------------------------------------
(* Extractor output and its validation *)

Str(v) == [type |-> "string", val |-> v]
Num(v) == [type |-> "number", val |-> v]
NullStr == [type |-> "null", val |-> ""]
UndefStr == [type |-> "undefined", val |-> ""]
NullNum == [type |-> "null", val |-> 0]
UndefNum == [type |-> "undefined", val |-> 0]

SellSymbolValues == {Str("WETH"), Str("FAKE"), NullStr, UndefStr}
BuySymbolValues == {Str("USDC"), Str("FAKE"), NullStr, UndefStr}
\* 2, 0.5, 1e-7, the string "2", null, undefined
SellAmountValues == {Num(2 * Scale), Num(Scale \div 2), Num(1),
                     [type |-> "string", val |-> 2 * Scale], NullNum, UndefNum}
ChainValues == {Str("base"), Str("Base"), Str("moonbase"), Str("8453"),
                NullStr, UndefStr}

Contents == [sellTokenSymbol : SellSymbolValues, sellAmount : SellAmountValues,
             buyTokenSymbol : BuySymbolValues, chain : ChainValues]

\* String.prototype.toLowerCase on the chain names in use
ToLowerCase(s) == IF s = "Base" THEN "base" ELSE s

\* `${x}` of a string-or-null field
Text(field) == IF field.type = "null" THEN "null" ELSE field.val

\* IndicativePriceSchema: z.string().nullable() and z.number().nullable()
NullableString(field) == field.type \in {"string", "null"}
NullableNumber(field) == field.type \in {"number", "null"}

IndicativePriceSchema(c) ==
    /\ NullableString(c.sellTokenSymbol)
    /\ NullableNumber(c.sellAmount)
    /\ NullableString(c.buyTokenSymbol)
    /\ NullableString(c.chain)

\* IndicativePriceSchema.safeParse(object).success
isIndicativePriceContent(c) == IndicativePriceSchema(c)

\* the fields pushed by getMissingIndicativePriceContent, in order
getMissingIndicativePriceContent(c) ==
    (IF c.sellTokenSymbol.type # "string" THEN <<"sell token">> ELSE <<>>)
    \o (IF c.buyTokenSymbol.type # "string" THEN <<"buy token">> ELSE <<>>)
    \o (IF c.sellAmount.type # "number" THEN <<"sell amount">> ELSE <<>>)

\* viem parseUnits(value, decimals) of a plain decimal string: the value
\* times 10^decimals, the digits beyond `decimals` rounded half up
ParseUnits(x, decimals) ==
    LET unit == Scale \div 10^decimals
        q == x \div unit
        r == x % unit
    IN  IF 2 * r >= unit THEN q + 1 ELSE q

\* the string of an integer (BigInt.prototype.toString)
IntegerString(n) == [value |-> n * Scale, exponent |-> FALSE]

Reply(kind, subject, items) == [kind |-> kind, subject |-> subject, items |-> items]

-----------------------------------------------------------------------------
(* getIndicativePrice.handler *)

g_all == <<g_vars, sent, failFirst>>

\* getSetting("ZERO_EX_API_KEY"): a string (possibly empty) or null
SettingValues == {NullStr, Str(""), Str("zx-api-key")}

\* !!x of a string-or-null value
Truthy(field) == field.type = "string" /\ field.val # ""

\* variant of validate that tests the setting for presence only (x != null)
validatePresenceOnly(key) == IF key.type = "string" THEN "true" ELSE "false"

\* lines 52-54: validate
validate(key) == IF Truthy(key) THEN "true" ELSE "false"

\* the runtime calls validate, which reads the setting
Validate ==
    /\ h_pc = "idle" /\ g_pc = "idle" /\ v_ret = "none"
    /\ \E key \in SettingValues :
          /\ setting' = key
          /\ v_ret' = validate(key)
    /\ events' = Append(events, "getSetting")
    /\ UNCHANGED <<h_pc, h_ret, content, chainId, sellMeta, buyMeta, baseUnits,
                   replies, memory, err, g_all>>

\* the runtime runs the handler of an action only after its validate
\* returned true
RuntimeGate == v_ret = "true"

\* the call handler(runtime, message, state, _options, callback)
InvokeHandler ==
    /\ h_pc = "idle" /\ g_pc = "idle"
    /\ RuntimeGate
    /\ h_pc' = "composeState"
    /\ UNCHANGED <<h_ret, content, chainId, sellMeta, buyMeta, baseUnits, replies,
                   memory, err, g_all, v_vars, events>>

\* lines 62-71: composeState when no state was passed, else
\* updateRecentMessageState; either may throw
HandlerComposeState ==
    /\ h_pc = "composeState"
    /\ \E hasState \in BOOLEAN, throws \in BOOLEAN :
          /\ events' = Append(events, IF hasState THEN "updateRecentMessageState"
                                                  ELSE "composeState")
          /\ IF throws
             THEN h_pc' = "threw" /\ err' = "composeState failed"
             ELSE h_pc' = "generateObject" /\ err' = err
    /\ UNCHANGED <<h_ret, content, chainId, sellMeta, buyMeta, baseUnits, replies,
                   memory, g_all, v_vars>>

\* lines 73-78: the extractor; it may throw, or return any object
HandlerGenerateObject ==
    /\ h_pc = "generateObject"
    /\ events' = Append(events, "generateObject")
    /\ \E throws \in BOOLEAN :
          IF throws
          THEN h_pc' = "threw" /\ err' = "generateObject failed" /\ content' = content
          ELSE /\ h_pc' = "validate" /\ err' = err
               /\ \E c \in Contents : content' = c
    /\ UNCHANGED <<h_ret, chainId, sellMeta, buyMeta, baseUnits, replies, memory,
                   g_all, v_vars>>

\* lines 80-86: schema validation and the "Need more information" reply
HandlerValidate ==
    /\ h_pc = "validate"
    /\ IF ~isIndicativePriceContent(content)
       THEN /\ replies' = Append(replies,
                 Reply("NeedMoreInfo", <<>>, getMissingIndicativePriceContent(content)))
            /\ events' = Append(events, "callback")
            /\ \E throws \in BOOLEAN :
                  IF throws
                  THEN h_pc' = "threw" /\ err' = "callback failed" /\ h_ret' = h_ret
                  ELSE h_pc' = "done" /\ err' = err /\ h_ret' = "undefined"
       ELSE /\ h_pc' = "resolveChain"
            /\ UNCHANGED <<replies, events, err, h_ret>>
    /\ UNCHANGED <<content, chainId, sellMeta, buyMeta, baseUnits, memory, g_all, v_vars>>

\* lines 88-102: chain.toLowerCase(), the Chains lookup, the
\* "Unsupported chain" reply listing Object.keys(Chains) filtered by
\* !Number.isNaN(Number(k))
HandlerResolveChain ==
    /\ h_pc = "resolveChain"
    /\ IF content.chain.type # "string"
       THEN \* chain is null: chain.toLowerCase() throws a TypeError
            /\ h_pc' = "threw" /\ err' = "TypeError"
            /\ UNCHANGED <<chainId, replies, events, h_ret>>
       ELSE /\ chainId' = Chains(ToLowerCase(content.chain.val))
            /\ IF chainId'.kind = "undefined"
               THEN /\ replies' = Append(replies,
                         Reply("UnsupportedChain", <<content.chain.val>>,
                               SelectSeq(ChainsKeys, IsNumericKey)))
                    /\ events' = Append(events, "callback")
                    /\ \E throws \in BOOLEAN :
                          IF throws
                          THEN h_pc' = "threw" /\ err' = "callback failed"
                               /\ h_ret' = h_ret
                          ELSE h_pc' = "done" /\ err' = err /\ h_ret' = "undefined"
               ELSE /\ h_pc' = "registry"
                    /\ UNCHANGED <<replies, events, err, h_ret>>
    /\ UNCHANGED <<content, sellMeta, buyMeta, baseUnits, memory, g_all, v_vars>>

\* lines 104-112: getInstance, isChainSupported, initializeChain or the
\* "is not supported for token swaps" reply
HandlerRegistry ==
    /\ h_pc = "registry"
    /\ IF isChainSupported(chainId)
       THEN /\ events' = events \o <<"isChainSupported", "initializeChain">>
            /\ replies' = replies /\ h_ret' = h_ret
            /\ \E throws \in BOOLEAN :
                  IF throws
                  THEN h_pc' = "threw" /\ err' = "initializeChain failed"
                  ELSE h_pc' = "lookup" /\ err' = err
       ELSE /\ events' = events \o <<"isChainSupported", "callback">>
            /\ replies' = Append(replies,
                  Reply("ChainNotSupported", <<content.chain.val>>, <<>>))
            /\ \E throws \in BOOLEAN :
                  IF throws
                  THEN h_pc' = "threw" /\ err' = "callback failed" /\ h_ret' = h_ret
                  ELSE h_pc' = "done" /\ err' = err /\ h_ret' = "undefined"
    /\ UNCHANGED <<content, chainId, sellMeta, buyMeta, baseUnits, memory, g_all, v_vars>>

\* variant of MissingTokens that forgets the buy token (line 126)
MissingTokensSellOnly(sm, bm) ==
    IF sm = NoMeta THEN <<Text(content.sellTokenSymbol)>> ELSE <<>>

\* the quoted symbols pushed to missingTokens, lines 124-126
MissingTokens(sm, bm) ==
    (IF sm = NoMeta THEN <<Text(content.sellTokenSymbol)>> ELSE <<>>)
    \o (IF bm = NoMeta THEN <<Text(content.buyTokenSymbol)>> ELSE <<>>)

\* lines 114-132: both registry lookups and the "not found" reply
HandlerLookupTokens ==
    /\ h_pc = "lookup"
    /\ \E outcome \in {"ok", "sellThrows", "buyThrows"}, cbThrows \in BOOLEAN :
          IF outcome = "sellThrows"
          THEN /\ events' = Append(events, "getTokenBySymbol")
               /\ h_pc' = "threw" /\ err' = "getTokenBySymbol failed"
               /\ UNCHANGED <<sellMeta, buyMeta, replies, h_ret>>
          ELSE IF outcome = "buyThrows"
          THEN /\ events' = events \o <<"getTokenBySymbol", "getTokenBySymbol">>
               /\ sellMeta' = getTokenBySymbol(content.sellTokenSymbol, chainId)
               /\ h_pc' = "threw" /\ err' = "getTokenBySymbol failed"
               /\ UNCHANGED <<buyMeta, replies, h_ret>>
          ELSE /\ sellMeta' = getTokenBySymbol(content.sellTokenSymbol, chainId)
               /\ buyMeta' = getTokenBySymbol(content.buyTokenSymbol, chainId)
               /\ IF sellMeta' = NoMeta \/ buyMeta' = NoMeta
                  THEN /\ events' = events \o <<"getTokenBySymbol",
                                                "getTokenBySymbol", "callback">>
                       /\ replies' = Append(replies,
                             Reply("TokensNotFound", <<content.chain.val>>,
                                   MissingTokens(sellMeta', buyMeta')))
                       /\ IF cbThrows
                          THEN h_pc' = "threw" /\ err' = "callback failed"
                               /\ h_ret' = h_ret
                          ELSE h_pc' = "done" /\ err' = err /\ h_ret' = "undefined"
                  ELSE /\ events' = events \o <<"getTokenBySymbol",
                                                "getTokenBySymbol">>
                       /\ h_pc' = "createClient"
                       /\ UNCHANGED <<replies, err, h_ret>>
    /\ UNCHANGED <<content, chainId, baseUnits, memory, g_all, v_vars>>

\* lines 134-142: createClientV2, outside the try block
HandlerCreateClient ==
    /\ h_pc = "createClient"
    /\ events' = Append(events, "createClientV2")
    /\ \E throws \in BOOLEAN :
          IF throws
          THEN h_pc' = "threw" /\ err' = "createClientV2 failed"
          ELSE h_pc' = "parseUnits" /\ err' = err
    /\ UNCHANGED <<h_ret, content, chainId, sellMeta, buyMeta, baseUnits, replies,
                   memory, g_all, v_vars>>

\* lines 144-147: parseUnits(sellAmount.toString(), decimals).toString(),
\* outside the try block. A null sellAmount has no toString; parseUnits
\* rejects a string in exponent notation.
HandlerParseUnits ==
    /\ h_pc = "parseUnits"
    /\ IF content.sellAmount.type # "number"
       THEN /\ h_pc' = "threw" /\ err' = "TypeError"
            /\ UNCHANGED <<baseUnits, events>>
       ELSE /\ events' = Append(events, "parseUnits")
            /\ IF NumberToString(content.sellAmount.val).exponent
               THEN /\ h_pc' = "threw" /\ err' = "InvalidDecimalNumberError"
                    /\ baseUnits' = baseUnits
               ELSE /\ h_pc' = "query" /\ err' = err
                    /\ baseUnits' = IntegerString(
                          ParseUnits(content.sellAmount.val, sellMeta.decimals))
    /\ UNCHANGED <<h_ret, content, chainId, sellMeta, buyMeta, replies, memory,
                   g_all, v_vars>>

\* variant of HandlerQuery whose exception is swallowed instead of reaching
\* the catch block
HandlerQueryThrowIgnored ==
    /\ h_pc = "query"
    /\ events' = Append(events, "query")
    /\ sent' = Append(sent, baseUnits)
    /\ \E throws \in BOOLEAN :
          IF throws
          THEN h_pc' = "store" /\ err' = "query failed" /\ price' = "none"
          ELSE h_pc' = "store" /\ err' = err /\ price' = "price"
    /\ UNCHANGED <<h_ret, content, chainId, sellMeta, buyMeta, baseUnits, replies,
                   memory, g_pc, g_ret, g_args, g_inquiry, attempt, failFirst,
                   waited, v_vars>>

\* lines 149-155: the single pricing query, first statement of the try
HandlerQuery ==
    /\ h_pc = "query"
    /\ events' = Append(events, "query")
    /\ sent' = Append(sent, baseUnits)
    /\ \E throws \in BOOLEAN :
          IF throws
          THEN h_pc' = "catch" /\ err' = "query failed" /\ price' = "none"
          ELSE h_pc' = "store" /\ err' = err /\ price' = "price"
    /\ UNCHANGED <<h_ret, content, chainId, sellMeta, buyMeta, baseUnits, replies,
                   memory, g_pc, g_ret, g_args, g_inquiry, attempt, failFirst,
                   waited, v_vars>>

\* lines 157-169 and 285-306: storePriceInquiryToMemory
HandlerStore ==
    /\ h_pc = "store"
    /\ events' = Append(events, "createMemory")
    /\ \E throws \in BOOLEAN :
          IF throws
          THEN h_pc' = "catch" /\ err' = "createMemory failed" /\ memory' = memory
          ELSE /\ h_pc' = "reply" /\ err' = err
               /\ memory' = Append(memory,
                     [sellTokenObject |-> sellMeta, buyTokenObject |-> buyMeta,
                      sellAmountBaseUnits |-> baseUnits, chainId |-> chainId.id])
    /\ UNCHANGED <<h_ret, content, chainId, sellMeta, buyMeta, baseUnits, replies,
                   g_all, v_vars>>

\* lines 171-185: the formatted reply
HandlerReply ==
    /\ h_pc = "reply"
    /\ events' = Append(events, "callback")
    /\ replies' = Append(replies,
          Reply("SwapDetails", <<content.chain.val>>,
                <<sellMeta.symbol, buyMeta.symbol>>))
    /\ \E throws \in BOOLEAN :
          IF throws
          THEN h_pc' = "catch" /\ err' = "callback failed"
          ELSE h_pc' = "traceResult" /\ err' = err
    /\ UNCHANGED <<h_ret, content, chainId, sellMeta, buyMeta, baseUnits, memory,
                   g_all, v_vars>>

\* lines 187-189: traceResult, then return true
HandlerTraceResult ==
    /\ h_pc = "traceResult"
    /\ events' = Append(events, "traceResult")
    /\ \E throws \in BOOLEAN :
          IF throws
          THEN h_pc' = "catch" /\ err' = "traceResult failed" /\ h_ret' = h_ret
          ELSE h_pc' = "done" /\ err' = err /\ h_ret' = "true"
    /\ UNCHANGED <<content, chainId, sellMeta, buyMeta, baseUnits, replies, memory,
                   g_all, v_vars>>

\* lines 190-197: the catch block: the error reply, then return false
HandlerCatch ==
    /\ h_pc = "catch"
    /\ events' = Append(events, "callback")
    /\ replies' = Append(replies, Reply("Error", <<>>, <<err>>))
    /\ \E throws \in BOOLEAN :
          IF throws
          THEN h_pc' = "threw" /\ err' = "callback failed" /\ h_ret' = h_ret
          ELSE h_pc' = "done" /\ err' = err /\ h_ret' = "false"
    /\ UNCHANGED <<content, chainId, sellMeta, buyMeta, baseUnits, memory, g_all, v_vars>>

Handler ==
    \/ Validate
    \/ InvokeHandler
    \/ HandlerComposeState
    \/ HandlerGenerateObject
    \/ HandlerValidate
    \/ HandlerResolveChain
    \/ HandlerRegistry
    \/ HandlerLookupTokens
    \/ HandlerCreateClient
    \/ HandlerParseUnits
    \/ HandlerQuery
    \/ HandlerStore
    \/ HandlerReply
    \/ HandlerTraceResult
    \/ HandlerCatch

-----------------------------------------------------------------------------

NoContent == [sellTokenSymbol |-> [type |-> "undefined", val |-> ""],
              sellAmount |-> [type |-> "undefined", val |-> 0],
              buyTokenSymbol |-> [type |-> "undefined", val |-> ""],
              chain |-> [type |-> "undefined", val |-> ""]]

NoChainId == [kind |-> "undefined", id |-> 0, name |-> ""]

Init ==
    /\ h_pc = "idle" /\ h_ret = "none"
    /\ content = NoContent
    /\ chainId = NoChainId
    /\ sellMeta = NoMeta /\ buyMeta = NoMeta
    /\ baseUnits = NoString
    /\ replies = <<>> /\ memory = <<>> /\ err = ""
    /\ g_pc = "idle" /\ g_ret = "none" /\ g_args = NoArgs
    /\ g_inquiry = NoInquiry
    /\ attempt = 0 /\ price = "none" /\ sent = <<>>
    /\ failFirst = 0
    /\ events = <<>>
    /\ waited = 0
    /\ setting = NullStr /\ v_ret = "none"

-----------------------------------------------------------------------------
(* Vocabulary of the properties *)

Calls(e) == Count(events, e)

GpiReturned == g_pc = "done"

\* both symbols of the call have metadata and the amount passes the guard
GpiGoodArgs ==
    /\ g_args.sellTokenSymbol \in KnownTokens
    /\ g_args.buyTokenSymbol \in KnownTokens
    /\ ~IsTooSmall(g_args.sellAmountBaseUnits)

\* both getTokenMetadata calls returned and at least one returned nothing
GpiUnresolved ==
    /\ g_pc \notin {"idle", "checkAmount", "resolve"}
    /\ Calls("getTokenMetadata") = 2
    /\ err # "getTokenMetadata failed"
    /\ (sellMeta = NoMeta \/ buyMeta = NoMeta)

HandlerEnded == h_pc \in {"done", "threw"}

\* generateObject returned and the validation of lines 80-86 has run
Validated ==
    /\ h_pc \notin {"idle", "composeState", "generateObject", "validate"}
    /\ err \notin {"composeState failed", "generateObject failed"}

FieldAbsent(field) == field.type \in {"null", "undefined"}

AnyFieldAbsent ==
    \/ FieldAbsent(content.sellTokenSymbol)
    \/ FieldAbsent(content.sellAmount)
    \/ FieldAbsent(content.buyTokenSymbol)
    \/ FieldAbsent(content.chain)

\* the handler's pricing query was made and threw
HandlerQueryThrew == h_pc # "idle" /\ Calls("query") = 1 /\ price = "none"

\* both getTokenBySymbol calls of the handler returned
HandlerLookedUp ==
    /\ h_pc \notin {"idle", "lookup"}
    /\ Calls("getTokenBySymbol") = 2
    /\ err # "getTokenBySymbol failed"

\* the symbol is in no catalogue
NotInRegistry(field) == field.type # "string" \/ field.val \notin KnownTokens

-----------------------------------------------------------------------------
(* C1 .. C10 *)

\* C1: with resolvable tokens and a non-degenerate amount, when every pricing
\* query fails, getPriceInquiry returns null only after the pricing query has
\* been invoked exactly 6 times.
C1_NullOnlyAfterSixQueries ==
    (GpiReturned /\ GpiGoodArgs /\ failFirst >= maxRetries /\ attempt = 0)
        => (g_ret = "null" /\ Calls("query") = maxRetries)

\* C2: for N in 1..6, when the pricing query fails on its first N-1
\* invocations and succeeds on the N-th, getPriceInquiry returns a PriceInquiry
\* after exactly N pricing queries and exactly N-1 delays.
C2_SucceedsOnNthQuery ==
    (GpiReturned /\ GpiGoodArgs /\ failFirst < maxRetries /\ attempt = 0)
        => /\ g_ret = "inquiry"
           /\ Calls("query") = failFirst + 1
           /\ Calls("sleep") = failFirst

\* C3: when the sell or the buy symbol has no metadata, getPriceInquiry
\* returns null after one lookup per symbol, with no client constructed, no
\* pricing query and no delay.
C3_UnresolvedTokenIsTerminal ==
    GpiUnresolved
        => /\ g_pc = "done" /\ g_ret = "null"
           /\ Calls("getTokenMetadata") = 2
           /\ Calls("createClientV2") = 0 /\ Calls("createWalletClient") = 0
           /\ Calls("query") = 0 /\ Calls("sleep") = 0
           /\ attempt = 0

C3_Witness ==
    /\ g_pc = "done" /\ g_ret = "null"
    /\ g_args.sellTokenSymbol = "FAKE" /\ g_args.buyTokenSymbol = "USDC"
    /\ ~IsTooSmall(g_args.sellAmountBaseUnits)
    /\ Calls("getTokenMetadata") = 2
    /\ sellMeta = NoMeta /\ buyMeta # NoMeta

\* C4: no exception escapes the handler or getPriceInquiry, whichever
\* collaborator throws and whatever schema-accepted object the extractor
\* returns.
C4_NoExceptionEscapes == h_pc # "threw" /\ g_pc # "threw"

\* C5: if any of the four extracted fields is null or missing, the handler
\* emits exactly one "Need more information" reply and returns without chain
\* resolution, registry call, pricing query or memory write.
C5_AbsentFieldNeedsMoreInfo ==
    (Validated /\ AnyFieldAbsent)
        => /\ HandlerEnded
           /\ Len(replies) = 1 /\ replies[1].kind = "NeedMoreInfo"
           /\ chainId = NoChainId
           /\ Calls("isChainSupported") = 0 /\ Calls("initializeChain") = 0
           /\ Calls("getTokenBySymbol") = 0
           /\ Calls("query") = 0 /\ Calls("createMemory") = 0

\* C6: on every path through one invocation of the handler the chat callback
\* is invoked at most once.
C6_AtMostOneCallback == Calls("callback") <= 1 /\ Len(replies) <= 1

\* C7: when the pricing query throws, the handler emits an error reply with
\* the exception message, returns false, and persists no memory record.
C7_QueryFailureReported ==
    (HandlerQueryThrew /\ HandlerEnded)
        => /\ h_pc = "done" /\ h_ret = "false"
           /\ replies = <<Reply("Error", <<>>, <<"query failed">>)>>
           /\ memory = <<>> /\ Calls("createMemory") = 0

\* C8: when the extracted chain name does not resolve to a chain id, the
\* handler emits one reply naming the supported chains and stops: no registry
\* initialization or lookup, no pricing query, no memory record.  Stated for
\* the chain strings that are no key of the enumeration at all.
C8_UnsupportedChainListsChains ==
    (/\ Validated /\ isIndicativePriceContent(content) /\ h_pc # "resolveChain"
     /\ content.chain.type = "string"
     /\ Chains(ToLowerCase(content.chain.val)).kind = "undefined")
        => /\ HandlerEnded
           /\ Len(replies) = 1 /\ replies[1].kind = "UnsupportedChain"
           /\ Range(replies[1].items) = Range(ChainNames)
           /\ Calls("initializeChain") = 0 /\ Calls("getTokenBySymbol") = 0
           /\ Calls("query") = 0 /\ memory = <<>>

\* C9: on a supported chain, if the sell or the buy symbol is not in the
\* registry, the handler emits one reply naming exactly the symbols not found,
\* and makes no pricing query and no memory write.
C9_MissingTokensNamed ==
    (HandlerLookedUp /\ (sellMeta = NoMeta \/ buyMeta = NoMeta))
        => /\ HandlerEnded
           /\ isChainSupported(chainId)
           /\ Len(replies) = 1 /\ replies[1].kind = "TokensNotFound"
           /\ Range(replies[1].items) =
                 {Text(f) : f \in {g \in {content.sellTokenSymbol,
                                          content.buyTokenSymbol} : NotInRegistry(g)}}
           /\ Calls("createClientV2") = 0 /\ Calls("query") = 0
           /\ Calls("createMemory") = 0 /\ memory = <<>>

C9_Witness ==
    /\ h_pc = "done" /\ h_ret = "undefined"
    /\ content.sellTokenSymbol = Str("WETH") /\ content.buyTokenSymbol = Str("FAKE")
    /\ replies = <<Reply("TokensNotFound", <<content.chain.val>>, <<"FAKE">>)>>

\* C10: the handler invokes the pricing query at most once, exactly once when
\* the chain and both tokens resolve, never re-attempts it and inserts no
\* delay.
C10_ExactlyOneQuery ==
    h_pc # "idle"
        => /\ Calls("query") <= 1 /\ Calls("sleep") = 0
           /\ (/\ HandlerEnded /\ HandlerLookedUp
               /\ sellMeta # NoMeta /\ buyMeta # NoMeta)
                  => Calls("query") = 1

-----------------------------------------------------------------------------
(* C11 .. C20 *)

\* the formatted reply of lines 172-185 has been handed to the callback
SwapDetailsSent == \E i \in DOMAIN replies : replies[i].kind = "SwapDetails"

\* C11: on a successful pricing query the handler writes the PriceInquiry to
\* memory, then delivers the formatted reply, then calls traceResult, then
\* returns true; and a memory write is attempted only after the pricing query
\* of that invocation succeeded.
C11_SuccessOrder ==
    h_pc # "idle"
        => /\ h_ret = "true"
                 => /\ Len(events) >= 4
                    /\ SubSeq(events, Len(events) - 3, Len(events)) =
                          <<"query", "createMemory", "callback", "traceResult">>
                    /\ Len(memory) = 1
                    /\ memory[1] = [sellTokenObject |-> sellMeta,
                                    buyTokenObject |-> buyMeta,
                                    sellAmountBaseUnits |-> baseUnits,
                                    chainId |-> chainId.id]
                    /\ Len(replies) = 1 /\ replies[1].kind = "SwapDetails"
           /\ (Calls("createMemory") > 0 \/ memory # <<>>)
                 => price = "price" /\ Calls("query") = 1
           /\ SwapDetailsSent => Len(memory) = 1
           /\ Calls("traceResult") > 0 => SwapDetailsSent

C11_Witness ==
    /\ h_pc = "done" /\ h_ret = "true"
    /\ Len(memory) = 1 /\ Len(replies) = 1
    /\ events[Len(events)] = "traceResult"

\* the amount is negative, zero, or nearer to 0 than to 1
IsDegenerate(x) == 2 * x < Scale

\* C12: getPriceInquiry returns null without a pricing query for every
\* sellAmountBaseUnits that is negative, zero or rounds to zero; the pricing
\* query is never invoked with a sellAmount of "0" or below.
C12_DegenerateAmountsRejected ==
    g_pc # "idle"
        => /\ \A i \in DOMAIN sent : sent[i].value > 0
           /\ (IsDegenerate(g_args.sellAmountBaseUnits) /\ g_pc = "done")
                 => g_ret = "null" /\ Calls("query") = 0

\* the k-th pricing query of getPriceInquiry has been made
GpiQueried == g_pc # "idle" /\ Calls("query") >= 1

\* C13: getPrice never propagates an exception: whether the underlying
\* pricing query returns or throws, getPrice returns that value or null.
C13_AdapterNeverThrows ==
    GpiQueried
        => /\ price \in {"null", "price"}
           /\ price = "null" <=> Calls("query") <= failFirst
           /\ err # "query failed"
           /\ g_pc = "done" /\ attempt = Calls("createClientV2") - 1

C13_Witness ==
    /\ GpiQueried /\ failFirst >= 1
    /\ price = "null" /\ g_pc = "done" /\ g_ret = "null"

\* C14: validate returns false when the ZERO_EX_API_KEY setting is absent
\* (null) or the empty string and true when it is a non-empty string; after a
\* validate that found no credential the handler never starts, so there is
\* no extractor call, no registry call, no pricing query, no memory write.
C14_CredentialGate ==
    v_ret # "none" =>
        /\ (setting = NullStr \/ setting = Str("")) => v_ret = "false"
        /\ (setting.type = "string" /\ setting.val # "") => v_ret = "true"
        /\ v_ret = "false" =>
              /\ h_pc = "idle" /\ h_ret = "none"
              /\ Calls("generateObject") = 0
              /\ Calls("getTokenBySymbol") = 0
              /\ Calls("createClientV2") = 0
              /\ Calls("query") = 0
              /\ Calls("createMemory") = 0
              /\ memory = <<>> /\ replies = <<>>
        /\ h_pc # "idle" => setting.type = "string" /\ setting.val # ""

\* validate ran on an empty credential and declined
C14_Witness == v_ret = "false" /\ setting = Str("") /\ Calls("getSetting") = 1

\* the loop iterations of getPriceInquiry so far: each starts with
\* createClientV2
Iterations == Calls("createClientV2")

\* every iteration after the first comes directly after exactly one delay,
\* and every delay is followed by an iteration
OneDelayBetweenAttempts ==
    \A i \in DOMAIN events :
        /\ (events[i] = "createClientV2" /\ \E j \in 1..(i-1) : events[j] = "createClientV2")
              => /\ events[i-1] = "sleep"
                 /\ events[i-2] # "sleep"
        /\ (events[i] = "sleep" /\ i < Len(events))
              => events[i+1] = "createClientV2"

C15_Accounting ==
    g_pc # "idle" =>
        /\ attempt \in 0..maxRetries
        /\ Calls("sleep") <= maxRetries - 1
        /\ waited = RETRY_DELAY_MS * Calls("sleep")
        /\ Calls("sleep") = IF g_pc = "sleep" \/ attempt = maxRetries
                            THEN attempt - 1 ELSE attempt
        /\ OneDelayBetweenAttempts
        /\ g_pc = "done" => (events = <<>> \/ events[Len(events)] # "sleep")
        /\ (IsTooSmall(g_args.sellAmountBaseUnits) \/ GpiUnresolved)
              => attempt = 0 /\ Calls("sleep") = 0 /\ Iterations = 0
        /\ attempt <= Iterations

C16_Terminates ==
    /\ [](Iterations <= maxRetries)
    /\ [](g_pc = "done" => g_ret \in {"null", "inquiry"})
    /\ (g_pc = "checkAmount"
           ~> (g_pc = "done" \/ err = "getTokenMetadata failed"))

\* the longest run: six iterations, then the return
C16_Witness ==
    /\ g_pc = "done" /\ g_ret \in {"null", "inquiry"}
    /\ Iterations = maxRetries /\ err # "getTokenMetadata failed"

\* C17: when the extractor output fails the schema, the "Need more
\* information" reply names every one of the four fields (sell token, buy
\* token, sell amount, chain) that fails its schema type, and the list of
\* named fields is not empty.
C17_NeedMoreInfoNamesFields ==
    \A i \in DOMAIN replies :
        replies[i].kind = "NeedMoreInfo" =>
            /\ replies[i].items # <<>>
            /\ ~NullableString(content.sellTokenSymbol)
                  => "sell token" \in Range(replies[i].items)
            /\ ~NullableString(content.buyTokenSymbol)
                  => "buy token" \in Range(replies[i].items)
            /\ ~NullableNumber(content.sellAmount)
                  => "sell amount" \in Range(replies[i].items)
            /\ ~NullableString(content.chain)
                  => "chain" \in Range(replies[i].items)

\* C18: in both call paths the sellAmountBaseUnits of a produced
\* PriceInquiry (the record written to memory by the handler, the value
\* returned by getPriceInquiry) is a decimal-integer string and equals the
\* sellAmount string sent in the pricing request of the same invocation.
C18_StoredAmountIsSentAmount ==
    /\ \A i \in DOMAIN memory :
          /\ IsDecimalIntegerString(memory[i].sellAmountBaseUnits)
          /\ sent # <<>>
          /\ memory[i].sellAmountBaseUnits = sent[Len(sent)]
    /\ (g_pc = "done" /\ g_ret = "inquiry") =>
          /\ IsDecimalIntegerString(g_inquiry.sellAmountBaseUnits)
          /\ sent # <<>>
          /\ g_inquiry.sellAmountBaseUnits = sent[Len(sent)]

\* C19: getPriceInquiry returns a PriceInquiry only if the last pricing
\* query of the invocation returned a price; every PriceInquiry it returns
\* has chainId 8453 and the two token metadata objects resolved from its
\* symbol arguments, whatever the _chain argument.
C19_InquiryOnlyOnPrice ==
    g_pc # "idle" =>
        /\ g_ret = "inquiry" =>
              /\ g_pc = "done"
              /\ price = "price"
              /\ events[Len(events)] = "query"
              /\ Calls("query") = Len(sent) /\ ~QueryThrows(Calls("query"))
              /\ g_inquiry.chainId = BASE_CHAIN_ID
              /\ g_inquiry.sellTokenObject = getTokenMetadata(g_args.sellTokenSymbol)
              /\ g_inquiry.buyTokenObject = getTokenMetadata(g_args.buyTokenSymbol)
              /\ g_inquiry.sellTokenObject # NoMeta
              /\ g_inquiry.buyTokenObject # NoMeta
        /\ g_ret # "inquiry" => g_inquiry = NoInquiry

\* a PriceInquiry returned for a call that named another chain
C19_Witness ==
    /\ g_pc = "done" /\ g_ret = "inquiry" /\ g_args.chain = "optimism"
    /\ g_inquiry.chainId = BASE_CHAIN_ID

ErrorReplySent == \E i \in DOMAIN replies : replies[i].kind = "Error"

\* C20: in the handler a failure report implies no persisted side effect:
\* an invocation that returns false, or emits an "Error getting price"
\* reply, has written no memory record; an invocation that wrote a
\* PriceInquiry record and ended returns true, also when the reply callback
\* or traceResult throws after the write.
C20_FailureMeansNoMemory ==
    h_pc # "idle" =>
        /\ (h_ret = "false" \/ ErrorReplySent) => memory = <<>>
        /\ (HandlerEnded /\ memory # <<>>) => h_ret = "true"

-----------------------------------------------------------------------------

Next == Handler \/ GetPriceInquiry

Spec == Init /\ [][Next]_vars

\* every step of an invocation of getPriceInquiry completes: awaited calls
\* return or throw, the delay of line 390 elapses
LiveSpec == Init /\ [][Next]_vars /\ WF_vars(GetPriceInquiry)

====
